---- MODULE Spec2Model ----
(***************************************************************************)
(* Model of cc_FTSD.ino: a four-digit, 14-segment revolving message sketch. *)
(* The state is the sketch's globals (i, j, loops, t, high, low, message,   *)
(* mesgLen), the EEPROM, the strobe pin and the bytes shifted out for the   *)
(* digit being sent.  setup() is one step (it only reads the EEPROM);       *)
(* loop() is cut at every pin write and at every EEPROM write, so that a    *)
(* power loss can fall between any two writes.                              *)
(***************************************************************************)
EXTENDS Integers, Sequences, FiniteSets, TLC

VARIABLES pc, i, j, loops, t, high, low, message, mesgLen, eeprom, strobe,
          wire, charSigned, ncyc, nrep, nboot

vars == <<pc, i, j, loops, t, high, low, message, mesgLen, eeprom, strobe,
          wire, charSigned, ncyc, nrep, nboot>>

(***************************************************************************)
(* Program constants.                                                      *)
(***************************************************************************)
DIGITSHIFT == 6
HIGHSHIFT == 8
LOWMASK == 255
DIGITDIFF == 48
LOWERCASEDIFF == 97
UPPERCASEDIFF == 65
\* number of display digits sent per refresh cycle (for (i = 0; i < 4; i++))
NumDigits == 4
\* the viewport's last position, j + 3 - i
WindowLast == 3
\* loops == 10: refresh cycles per scroll step
FrameThreshold == 10
\* temp <= 128: longest stored message setup() accepts
MaxStored == 128
\* byte is 8 bits wide: values wrap modulo 256
ByteMod == 256
\* the all-ones byte setup() compares c with
AllOnes == 255
LOW == 0
HIGH == 1

(***************************************************************************)
(* Bounds of the model.                                                    *)
(***************************************************************************)
\* refresh cycles followed after a boot or a replacement (Spec)
MaxCycles == 12
\* refresh cycles followed without serial input (ScrollSpec)
MaxScroll == 1290
\* refresh cycles followed after a boot or a replacement (PowerSpec)
MaxPowerCycles == 2
\* message replacements in one behaviour
MaxReplacements == 1
\* power cycles in one behaviour (PowerSpec)
MaxBoots == 1
\* refresh cycles followed for each one-character message (FontSpec)
MaxFontCycles == 2
\* highest EEPROM address of the model: the longest message the model
\* persists takes addresses 0..130
EepromTop == 131

Byte == 0..(ByteMod - 1)

(***************************************************************************)
(* The font: lines 51-118 and translate(), lines 131-175.                  *)
(***************************************************************************)
segTransNum ==
  <<2239, 134, 4249, 271, 4390, 8461, 4665, 2177, 4415, 8463>>

segTransUpp ==
  <<1414, 1359, 57, 1103, 4153, 4401, 317, 4406, 1097, 2129, 4784, 56, 8374,
    8758, 63, 4273, 575, 4785, 4397, 1089, 62, 8710, 2614, 10880, 9344, 2185>>

segTransLow ==
  <<6664, 4664, 4376, 2318, 898, 5504, 8463, 4656, 260, 2128, 1728, 1088,
    5396, 4624, 4380, 12336, 8455, 4368, 776, 5440, 28, 516, 2580, 10880,
    10368, 6152>>

isDigit(c) == c >= 48 /\ c <= 57
isLowerCase(c) == c >= 97 /\ c <= 122
isUpperCase(c) == c >= 65 /\ c <= 90

\* mutant: the switch's default lights the eight low segments
PunctuationDefaultLit(c) ==
  CASE c = 33 -> 3201   [] c = 34 -> 66     [] c = 35 -> 5454
    [] c = 36 -> 9801   [] c = 37 -> 2210   [] c = 38 -> 15249
    [] c = 39 -> 2      [] c = 40 -> 640    [] c = 41 -> 10240
    [] c = 42 -> 11968  [] c = 43 -> 5440   [] c = 44 -> 2048
    [] c = 45 -> 4352   [] c = 46 -> 1024   [] c = 47 -> 2176
    [] c = 58 -> 1088   [] c = 59 -> 2112   [] c = 60 -> 2184
    [] c = 61 -> 4360   [] c = 62 -> 8712   [] c = 63 -> 1283
    [] c = 64 -> 6711   [] c = 91 -> 57     [] c = 92 -> 8704
    [] c = 93 -> 15     [] c = 94 -> 2560   [] c = 95 -> 8
    [] c = 96 -> 8192   [] c = 123 -> 4736  [] c = 124 -> 6
    [] c = 125 -> 10496 [] c = 126 -> 2324
    [] OTHER -> LOWMASK

\* the switch of translate(): 32 punctuation characters, default 0
Punctuation(c) ==
  CASE c = 33 -> 3201   [] c = 34 -> 66     [] c = 35 -> 5454
    [] c = 36 -> 9801   [] c = 37 -> 2210   [] c = 38 -> 15249
    [] c = 39 -> 2      [] c = 40 -> 640    [] c = 41 -> 10240
    [] c = 42 -> 11968  [] c = 43 -> 5440   [] c = 44 -> 2048
    [] c = 45 -> 4352   [] c = 46 -> 1024   [] c = 47 -> 2176
    [] c = 58 -> 1088   [] c = 59 -> 2112   [] c = 60 -> 2184
    [] c = 61 -> 4360   [] c = 62 -> 8712   [] c = 63 -> 1283
    [] c = 64 -> 6711   [] c = 91 -> 57     [] c = 92 -> 8704
    [] c = 93 -> 15     [] c = 94 -> 2560   [] c = 95 -> 8
    [] c = 96 -> 8192   [] c = 123 -> 4736  [] c = 124 -> 6
    [] c = 125 -> 10496 [] c = 126 -> 2324
    [] OTHER -> 0

\* mutant: the letter tables are taken for each other
translateSwapsCase(c) ==
  IF isDigit(c) THEN segTransNum[(c - DIGITDIFF) + 1]
  ELSE IF isLowerCase(c) THEN segTransUpp[(c - LOWERCASEDIFF) + 1]
  ELSE IF isUpperCase(c) THEN segTransLow[(c - UPPERCASEDIFF) + 1]
  ELSE Punctuation(c)

\* c is the byte of the character; the character classes are ASCII ranges,
\* so a byte of 128 and more (a negative char, or one past ASCII) is in none.
translate(c) ==
  IF isDigit(c) THEN segTransNum[(c - DIGITDIFF) + 1]
  ELSE IF isLowerCase(c) THEN segTransLow[(c - LOWERCASEDIFF) + 1]
  ELSE IF isUpperCase(c) THEN segTransUpp[(c - UPPERCASEDIFF) + 1]
  ELSE Punctuation(c)

(***************************************************************************)
(* Arithmetic of the sketch's types.                                       *)
(***************************************************************************)
\* a value stored into a byte variable
ToByte(n) == n % ByteMod

\* a % b of C.  b = 0 is undefined behaviour: the result is any of the
\* outcomes listed (the dividend, as avr-libc's division routine leaves it,
\* or the extreme values), otherwise the remainder.
Rem(a, b) == IF b = 0 THEN {a, 0, AllOnes} ELSE {a % b}

\* the int a char promotes to: a signed char holds bytes 128..255 as
\* negative values, an unsigned char as themselves
CharValue(b, signed) == IF signed /\ b >= 128 THEN b - ByteMod ELSE b

\* c = EEPROM.read(i) or c = Serial.read(), then message.concat(c): the byte
\* read, held in a char and appended
ReadChar(b, signed) == ToByte(CharValue(b, signed) + ByteMod)

\* message[index] and message.charAt(index): the character, or 0 past the end
CharAt(msg, index) ==
  IF index >= 0 /\ index < Len(msg) THEN msg[index + 1] ELSE 0

(***************************************************************************)
(* setup(), lines 182-213.                                                 *)
(***************************************************************************)
DefaultMessage ==
  <<80, 76, 69, 65, 83, 69, 32, 83, 69, 84, 32, 84, 72, 73, 83, 32, 77, 69,
    83, 83, 65, 71, 69, 32, 86, 73, 65, 32, 65, 32, 83, 69, 82, 73, 65, 76,
    32, 76, 73, 78, 75, 32, 32, 32>>

\* mutant: the length test is off by one
LengthValidOffByOne(temp) == temp > 0 /\ temp <= MaxStored + 1

\* temp > 0 && temp <= 128
LengthValid(temp) == temp > 0 /\ temp <= MaxStored

\* mutant: the null byte does not end the read
ReadOnPastNull(k, temp, c, signed) ==
  k <= temp /\ CharValue(c, signed) # AllOnes

\* while (i <= temp && c != 0 && c != 0xFF), after i++
ReadOn(k, temp, c, signed) ==
  k <= temp /\ c # 0 /\ CharValue(c, signed) # AllOnes

\* the do-while of lines 198-202 leaves the loop after the pass that read
\* address k: the test fails with i = k + 1 and c = the byte at k
StopsAfter(store, signed, temp, k) ==
  ~ReadOn(ToByte(k + 1), temp, store[k], signed)

\* the number of passes of the do-while: the first pass it stops after
ReadCount(store, signed, temp) ==
  CHOOSE n \in 1..temp :
    /\ StopsAfter(store, signed, temp, n)
    /\ \A m \in 1..(n - 1) : ~StopsAfter(store, signed, temp, m)

\* the message the do-while builds: every pass appends the byte it read
ReadStored(store, signed, temp) ==
  [k \in 1..ReadCount(store, signed, temp) |-> ReadChar(store[k], signed)]

\* the message setup() builds from the store
StoredMessage(store, signed) ==
  IF LengthValid(store[0])
    THEN ReadStored(store, signed, store[0])
    ELSE DefaultMessage

\* the state setup() leaves, from the store it finds
Setup(store, signed) ==
  LET msg == StoredMessage(store, signed)
  IN  /\ strobe' = HIGH
      /\ loops' = 0
      /\ j' = 0
      /\ message' = msg
      /\ mesgLen' = ToByte(Len(msg))
      /\ i' = IF LengthValid(store[0]) THEN ToByte(Len(msg) + 1) ELSE 0
      /\ t' = 0
      /\ high' = 0
      /\ low' = 0
      /\ wire' = <<>>
      /\ pc' = "loop"
      /\ ncyc' = 0

(***************************************************************************)
(* Inputs: the stores the sketch may find at its first boot, and the       *)
(* bursts of bytes one pass of the serial read loop may accumulate.        *)
(***************************************************************************)
\* "ABC...ZABC...", n characters
Filler(n) == [k \in 1..n |-> 65 + ((k - 1) % 26)]

\* length, characters, terminator, over a store of fill bytes
StoreHolding(msg, fill) ==
  [a \in 0..EepromTop |->
     IF a = 0 THEN Len(msg)
     ELSE IF a <= Len(msg) THEN msg[a]
     ELSE IF a = Len(msg) + 1 THEN 0
     ELSE fill]

\* a factory-fresh EEPROM
FreshStore == [a \in 0..EepromTop |-> AllOnes]

\* a store of text with no valid length in front of it
GarbageStore == [a \in 0..EepromTop |-> IF a = 0 THEN MaxStored + 1 ELSE 66]

InitStores ==
  {FreshStore, GarbageStore, StoreHolding(<<66, 66, 66>>, AllOnes),
   StoreHolding(Filler(MaxStored), 0)}

\* text of 1, 4 ("ABCD"), 256 and 257 characters, and bursts with a null
\* or an all-ones byte in them
Bursts ==
  {Filler(1), Filler(4), Filler(ByteMod), Filler(ByteMod + 1),
   <<0>>, <<AllOnes, 65>>, <<65, 0, 67>>}

\* text of 128 and of 129 characters: the longest message setup() accepts,
\* and one more
LongBursts == {Filler(MaxStored), Filler(MaxStored + 1)}

ScrollLens == {1, 2, 3, 4, 5, MaxStored}

ScrollStores == {FreshStore} \cup {StoreHolding(Filler(n), 0) : n \in ScrollLens}

\* a stored message of one character, for every value of the byte: the
\* do-while of setup() appends the first byte it reads whatever it is
FontStores == {StoreHolding(<<c>>, 0) : c \in Byte}

(***************************************************************************)
(* Initial states: the state setup() leaves at the first boot.             *)
(***************************************************************************)
Boot(stores) ==
  /\ eeprom \in stores
  /\ charSigned \in BOOLEAN
  /\ strobe = HIGH
  /\ loops = 0
  /\ j = 0
  /\ message = StoredMessage(eeprom, charSigned)
  /\ mesgLen = ToByte(Len(message))
  /\ i = IF LengthValid(eeprom[0]) THEN ToByte(Len(message) + 1) ELSE 0
  /\ t = 0
  /\ high = 0
  /\ low = 0
  /\ wire = <<>>
  /\ pc = "loop"
  /\ ncyc = 0
  /\ nrep = 0
  /\ nboot = 0

Init == Boot(InitStores)

ScrollInit == Boot(ScrollStores)

FontInit == Boot(FontStores)

(***************************************************************************)
(* loop(), lines 215-257.                                                  *)
(***************************************************************************)
\* mutant: the window is read left to right, j + i
MessageIndexForward(jj, ii, len) == Rem(jj + ii, len)

\* (j + 3 - i) % mesgLen, line 217
MessageIndex(jj, ii, len) == Rem(jj + WindowLast - ii, len)

\* mutant: the digit number is shifted by one bit more
HighByteShiftsSeven(tt, ii) ==
  ToByte(ToByte(tt \div (2 ^ HIGHSHIFT)) + ii * (2 ^ (DIGITSHIFT + 1)))

\* high = (byte) (t >> HIGHSHIFT); high += (i << DIGITSHIFT), lines 218, 220
HighByte(tt, ii) ==
  ToByte(ToByte(tt \div (2 ^ HIGHSHIFT)) + ii * (2 ^ DIGITSHIFT))

\* low = (byte) (t & LOWMASK), line 219
LowByte(tt) == tt % (LOWMASK + 1)

\* loop() is entered: for (i = 0; ...
LoopEntry(cap) ==
  /\ pc = "loop"
  /\ ncyc < cap
  /\ i' = 0
  /\ pc' = "digit"
  /\ UNCHANGED <<j, loops, t, high, low, message, mesgLen, eeprom, strobe,
                 wire, charSigned, ncyc, nrep, nboot>>

\* lines 217-221: translate the digit's character, strobe low
DigitLoad ==
  /\ pc = "digit"
  /\ \E idx \in MessageIndex(j, i, mesgLen) :
       /\ t' = translate(CharAt(message, idx))
       /\ high' = HighByte(t', i)
       /\ low' = LowByte(t')
  /\ strobe' = LOW
  /\ wire' = <<>>
  /\ pc' = "shiftHigh"
  /\ UNCHANGED <<i, j, loops, message, mesgLen, eeprom, charSigned, ncyc,
                 nrep, nboot>>

\* mutant: the strobe is raised between the two bytes
ShiftHighThenLatch ==
  /\ pc = "shiftHigh"
  /\ wire' = Append(wire, high)
  /\ strobe' = HIGH
  /\ pc' = "shiftLow"
  /\ UNCHANGED <<i, j, loops, t, high, low, message, mesgLen, eeprom,
                 charSigned, ncyc, nrep, nboot>>

\* line 222: shiftOut(high)
ShiftHigh ==
  /\ pc = "shiftHigh"
  /\ wire' = Append(wire, high)
  /\ pc' = "shiftLow"
  /\ UNCHANGED <<i, j, loops, t, high, low, message, mesgLen, eeprom, strobe,
                 charSigned, ncyc, nrep, nboot>>

\* line 223: shiftOut(low)
ShiftLow ==
  /\ pc = "shiftLow"
  /\ wire' = Append(wire, low)
  /\ pc' = "latch"
  /\ UNCHANGED <<i, j, loops, t, high, low, message, mesgLen, eeprom, strobe,
                 charSigned, ncyc, nrep, nboot>>

\* mutant: the for loop ends after three digits
LatchThreeDigits ==
  /\ pc = "latch"
  /\ strobe' = HIGH
  /\ i' = ToByte(i + 1)
  /\ pc' = IF i' < NumDigits - 1 THEN "digit" ELSE "frame"
  /\ UNCHANGED <<j, loops, t, high, low, message, mesgLen, eeprom, wire,
                 charSigned, ncyc, nrep, nboot>>

\* lines 224-226: strobe high, settle, i++ and the loop test
Latch ==
  /\ pc = "latch"
  /\ strobe' = HIGH
  /\ i' = ToByte(i + 1)
  /\ pc' = IF i' < NumDigits THEN "digit" ELSE "frame"
  /\ UNCHANGED <<j, loops, t, high, low, message, mesgLen, eeprom, wire,
                 charSigned, ncyc, nrep, nboot>>

\* mutant: j++ without the wrap
AdvanceNoWrap(jj, len) == {ToByte(jj + 1)}

\* j++; j %= mesgLen, lines 231-232
Advance(jj, len) == Rem(ToByte(jj + 1), len)

\* mutant: the threshold is tested before the increment
FrameTestsFirst ==
  /\ pc = "frame"
  /\ IF loops = FrameThreshold
       THEN /\ loops' = 0
            /\ j' \in Advance(j, mesgLen)
       ELSE /\ loops' = ToByte(loops + 1)
            /\ j' = j
  /\ ncyc' = ncyc + 1
  /\ pc' = "serial"
  /\ UNCHANGED <<i, t, high, low, message, mesgLen, eeprom, strobe, wire,
                 charSigned, nrep, nboot>>

\* lines 228-233: the frame counter and the scroll step
Frame ==
  /\ pc = "frame"
  /\ IF ToByte(loops + 1) = FrameThreshold
       THEN /\ loops' = 0
            /\ j' \in Advance(j, mesgLen)
       ELSE /\ loops' = ToByte(loops + 1)
            /\ j' = j
  /\ ncyc' = ncyc + 1
  /\ pc' = "serial"
  /\ UNCHANGED <<i, t, high, low, message, mesgLen, eeprom, strobe, wire,
                 charSigned, nrep, nboot>>

\* mutant: message = "" is run before the test of Serial.available()
SerialIdleClearsMessage ==
  /\ pc = "serial"
  /\ message' = <<>>
  /\ pc' = "loop"
  /\ UNCHANGED <<i, j, loops, t, high, low, mesgLen, eeprom, strobe, wire,
                 charSigned, ncyc, nrep, nboot>>

\* line 235, Serial.available() == 0: loop() returns
SerialIdle ==
  /\ pc = "serial"
  /\ pc' = "loop"
  /\ UNCHANGED <<i, j, loops, t, high, low, message, mesgLen, eeprom, strobe,
                 wire, charSigned, ncyc, nrep, nboot>>

\* lines 236-241: the message is emptied and every byte read is appended
Accumulate(burst, signed) ==
  [k \in 1..Len(burst) |-> ReadChar(burst[k], signed)]

\* lines 235-245: input is available; the bytes of one burst (all the bytes
\* that arrive before the read loop finds none) are accumulated into an
\* emptied message, and a non-empty message becomes the current one
SerialReceive(bursts) ==
  /\ pc = "serial"
  /\ nrep < MaxReplacements
  /\ \E burst \in bursts :
       /\ message' = Accumulate(burst, charSigned)
       /\ IF Len(message') > 0
            THEN /\ mesgLen' = ToByte(Len(message'))
                 /\ pc' = "writeLen"
            ELSE /\ mesgLen' = mesgLen
                 /\ pc' = "loop"
  /\ nrep' = nrep + 1
  /\ UNCHANGED <<i, j, loops, t, high, low, eeprom, strobe, wire, charSigned,
                 ncyc, nboot>>

\* line 246 and the for's i = 0 and first test
WriteLen ==
  /\ pc = "writeLen"
  /\ eeprom' = [eeprom EXCEPT ![0] = mesgLen]
  /\ i' = 0
  /\ pc' = IF i' < mesgLen THEN "writeData" ELSE "writeTerm"
  /\ UNCHANGED <<j, loops, t, high, low, message, mesgLen, strobe, wire,
                 charSigned, ncyc, nrep, nboot>>

\* line 248, i++ and the for's test
WriteData ==
  /\ pc = "writeData"
  /\ eeprom' = [eeprom EXCEPT ![i + 1] = CharAt(message, i)]
  /\ i' = ToByte(i + 1)
  /\ pc' = IF i' < mesgLen THEN "writeData" ELSE "writeTerm"
  /\ UNCHANGED <<j, loops, t, high, low, message, mesgLen, strobe, wire,
                 charSigned, ncyc, nrep, nboot>>

\* mutant: the offset is not reset after a replacement
WriteTermKeepsOffset ==
  /\ pc = "writeTerm"
  /\ eeprom' = [eeprom EXCEPT ![i + 1] = 0]
  /\ loops' = 0
  /\ ncyc' = 0
  /\ pc' = "loop"
  /\ UNCHANGED <<i, j, t, high, low, message, mesgLen, strobe, wire,
                 charSigned, nrep, nboot>>

\* lines 250-254: the terminator, then j = 0 and loops = 0; loop() returns
WriteTerm ==
  /\ pc = "writeTerm"
  /\ eeprom' = [eeprom EXCEPT ![i + 1] = 0]
  /\ j' = 0
  /\ loops' = 0
  /\ ncyc' = 0
  /\ pc' = "loop"
  /\ UNCHANGED <<i, t, high, low, message, mesgLen, strobe, wire, charSigned,
                 nrep, nboot>>

\* mutant: setup() writes the length of the message it built to the store
PowerCycleStoresLength ==
  /\ nboot < MaxBoots
  /\ Setup(eeprom, charSigned)
  /\ eeprom' = [eeprom EXCEPT ![0] = mesgLen']
  /\ nboot' = nboot + 1
  /\ UNCHANGED <<charSigned, nrep>>

\* power is lost and restored: setup() runs against the store as it is
PowerCycle ==
  /\ nboot < MaxBoots
  /\ Setup(eeprom, charSigned)
  /\ nboot' = nboot + 1
  /\ UNCHANGED <<eeprom, charSigned, nrep>>

Next ==
  \/ LoopEntry(MaxCycles)
  \/ DigitLoad
  \/ ShiftHigh
  \/ ShiftLow
  \/ Latch
  \/ Frame
  \/ SerialIdle
  \/ SerialReceive(Bursts \cup LongBursts)
  \/ WriteLen
  \/ WriteData
  \/ WriteTerm

Spec == Init /\ [][Next]_vars

\* the sketch left alone: no serial input
ScrollNext ==
  \/ LoopEntry(MaxScroll)
  \/ DigitLoad
  \/ ShiftHigh
  \/ ShiftLow
  \/ Latch
  \/ Frame
  \/ SerialIdle

ScrollSpec == ScrollInit /\ [][ScrollNext]_vars

\* the sketch left alone with each one-character message: every digit of
\* every cycle translates that character
FontNext ==
  \/ LoopEntry(MaxFontCycles)
  \/ DigitLoad
  \/ ShiftHigh
  \/ ShiftLow
  \/ Latch
  \/ Frame
  \/ SerialIdle

FontSpec == FontInit /\ [][FontNext]_vars

\* the sketch with power losses, at any point of loop()
PowerNext ==
  \/ LoopEntry(MaxPowerCycles)
  \/ DigitLoad
  \/ ShiftHigh
  \/ ShiftLow
  \/ Latch
  \/ Frame
  \/ SerialIdle
  \/ SerialReceive(Bursts)
  \/ WriteLen
  \/ WriteData
  \/ WriteTerm
  \/ PowerCycle

PowerSpec == Init /\ [][PowerNext]_vars

\* every EEPROM address the sketch writes is an address of the model
WritesInStore == pc \in {"writeData", "writeTerm"} => i + 1 <= EepromTop

TypeOK ==
  /\ i \in Byte /\ j \in Byte /\ loops \in Byte /\ mesgLen \in Byte
  /\ high \in Byte /\ low \in Byte
  /\ strobe \in {LOW, HIGH}
  /\ \A a \in 0..EepromTop : eeprom[a] \in Byte

(***************************************************************************)
(* Properties.                                                             *)
(***************************************************************************)
\* the digit's character has been translated (t, high and low are set)
DigitLoaded == pc \in {"shiftHigh", "shiftLow", "latch"}

\* C1: in every refresh cycle, with a message of 1..128 characters and an
\* offset inside it, the glyph translated for digit i is that of the message
\* character at index (j + 3 - i) mod length, an index inside the message,
\* and the two bytes sent are that glyph's; with "ABCD" and offset 0 the
\* digits 0, 1, 2, 3 show 'D', 'C', 'B', 'A'.
C1_DigitShowsWindowCharacter ==
  (DigitLoaded /\ Len(message) \in 1..128 /\ j < Len(message)) =>
    LET index == (j + 3 - i) % Len(message)
    IN  /\ index \in 0..(Len(message) - 1)
        /\ t = translate(message[index + 1])
        /\ pc = "latch" => wire = <<HighByte(t, i), LowByte(t)>>
        /\ (message = <<65, 66, 67, 68>> /\ j = 0) =>
             t = translate(<<68, 67, 66, 65>>[i + 1])

\* digit 0 of "ABCD" at offset 0 has been sent, and shows 'D'
C1_Witness ==
  /\ pc = "latch"
  /\ message = <<65, 66, 67, 68>>
  /\ j = 0
  /\ i = 0
  /\ t = 1103

\* C2: with no message replacement, the frame counter is the number of
\* refresh cycles modulo 10 (so always in 0..9) and the window offset is the
\* number of completed tens of cycles modulo the message length: the offset
\* moves by one step on every 10th cycle and on no other.
C2_OffsetAdvancesEveryTenthCycle ==
  /\ loops \in 0..9
  /\ loops = ncyc % 10
  /\ j = (ncyc \div 10) % Len(message)

\* twenty cycles of a five-character message: the offset has moved twice
C2_Witness ==
  /\ pc = "serial"
  /\ ncyc = 20
  /\ Len(message) = 5
  /\ j = 2
  /\ loops = 0

\* C3: with a message of L characters (1..128) and no replacement, the
\* offset is back at its starting value 0 after exactly L advances (10 * L
\* cycles) and at every multiple of L advances, and at no other number of
\* advances.
C3_ScrollPeriodIsLength ==
  LET L == Len(message)
      advances == ncyc \div 10
  IN  L \in 1..128 =>
        /\ ncyc = 10 * L => j = 0
        /\ advances \in 1..(L - 1) => j # 0
        /\ (j = 0) <=> (advances % L = 0)

\* a 128-character message has scrolled once around
C3_Witness ==
  /\ pc = "serial"
  /\ Len(message) = 128
  /\ ncyc = 1280
  /\ j = 0

\* setup() has just run: nothing has been shifted out yet
JustBooted == pc = "loop" /\ wire = <<>>

\* the first refresh cycle after a replacement: j and loops were reset and
\* no cycle has been completed since
FirstCycleAfterReplacement == nrep > 0 /\ nboot = 0 /\ ncyc = 0

\* an EEPROM write of the replacement is still to come
Persisting == pc \in {"writeLen", "writeData", "writeTerm"}

\* C4: after a replacement by serial input, offset and frame counter are
\* zero when the next refresh cycle begins, and that cycle's digits show the
\* characters at indices 3, 2, 1, 0 (mod the new length) of the new message.
\* (Stated where the index the sketch computes is defined, mesgLen # 0.)
C4_ReplacementRestartsWindow ==
  (FirstCycleAfterReplacement /\ mesgLen # 0) =>
    /\ j = 0
    /\ loops = 0
    /\ DigitLoaded => t = translate(message[((3 - i) % Len(message)) + 1])

\* C5: a received message of 1..128 characters that has been persisted is
\* the message setup() rebuilds from the store, with mesgLen its length.
\* (Stated for the build where char is signed, the AVR one.)
C5_RoundTripPersistence ==
  [][(/\ charSigned
      /\ nboot = 0
      /\ nboot' = 1
      /\ nrep > 0
      /\ ~Persisting
      /\ Len(message) \in 1..128)
     => (message' = message /\ mesgLen' = Len(message))]_vars

\* the bytes that end setup()'s read: the null byte, and the all-ones byte
\* where char is unsigned (a signed char never equals 0xFF)
Terminators == IF charSigned THEN {0} ELSE {0, 255}

\* the addresses among 1..L that hold a byte ending the read
TerminatorsIn(L) == {k \in 1..L : eeprom[k] \in Terminators}

\* the smallest member of a non-empty set of numbers
Least(S) == CHOOSE k \in S : \A m \in S : k <= m

\* C6 as stated: after initialization from a store whose length byte is in
\* 1..128 and that has a null or all-ones byte among bytes 1..L-1, the
\* message is the default message.  (Stated for the build where char is
\* signed, the AVR one.)
C6_EarlyTerminatorGivesDefault ==
  (/\ charSigned
   /\ JustBooted
   /\ eeprom[0] \in 1..128
   /\ \E k \in 1..(eeprom[0] - 1) : eeprom[k] \in {0, 255})
  => message = DefaultMessage

\* C6, amended: after initialization from a store whose length byte L is in
\* 1..128, the message is the stored bytes from address 1 up to and
\* including the first byte that ends the read (a null byte, or an all-ones
\* byte where char is unsigned), or all L bytes if there is none; mesgLen is
\* its length.  It is a truncated prefix that holds the terminator, never
\* the default message substituted for it, and where char is signed an
\* all-ones byte is read as any other character.
C6_EarlyTerminatorTruncates ==
  (JustBooted /\ eeprom[0] \in 1..128) =>
    LET L == eeprom[0]
        n == IF TerminatorsIn(L) = {} THEN L ELSE Least(TerminatorsIn(L))
    IN  /\ Len(message) = n
        /\ mesgLen = n
        /\ \A k \in 1..n : message[k] = eeprom[k]

\* a store of length 3 with a null byte at address 2 has been read: the
\* message is the two bytes 'A', 0
C6_Witness ==
  /\ JustBooted
  /\ nboot = 1
  /\ eeprom[0] = 3
  /\ eeprom[1] = 65
  /\ eeprom[2] = 0
  /\ message = <<65, 0>>

\* C7: after initialization from a store whose length byte is outside
\* 1..128, the message is the default message and mesgLen its length (44),
\* whatever the other bytes are; and initialization leaves the store as it
\* was.
C7_BadLengthGivesDefault ==
  /\ [](JustBooted /\ eeprom[0] \notin 1..128 =>
          /\ message =
               <<80, 76, 69, 65, 83, 69, 32, 83, 69, 84, 32, 84, 72, 73, 83,
                 32, 77, 69, 83, 83, 65, 71, 69, 32, 86, 73, 65, 32, 65, 32,
                 83, 69, 82, 73, 65, 76, 32, 76, 73, 78, 75, 32, 32, 32>>
          /\ mesgLen = 44)
  /\ [][nboot' # nboot => eeprom' = eeprom]_vars

\* setup() has run against a store whose length byte is 0 and whose next
\* byte is a character, and has left the default message
C7_Witness ==
  /\ JustBooted
  /\ nboot = 1
  /\ eeprom[0] = 0
  /\ eeprom[1] # 0
  /\ message = DefaultMessage

\* p is a prefix of m
IsPrefix(p, m) == Len(p) <= Len(m) /\ \A k \in 1..Len(p) : p[k] = m[k]

\* C8: when power is lost after the length byte of a replacement has been
\* written and before its terminator has, the next initialization yields
\* the default message or a prefix of the new message.
C8_TornWriteNeverMixes ==
  [][(nboot' = nboot + 1 /\ pc \in {"writeData", "writeTerm"})
     => (message' = DefaultMessage \/ IsPrefix(message', message))]_vars

\* C9: whenever a refresh cycle starts, the message has 1..128 characters
\* and mesgLen is in 1..128.
C9_MessageLengthWithinLimit ==
  pc = "loop" => (Len(message) \in 1..128 /\ mesgLen \in 1..128)

\* C10: an input pass that accumulates nothing (loop() goes from the test of
\* the input channel straight to its end) leaves message, mesgLen, offset,
\* frame counter and store as they were.
C10_EmptyInputIgnored ==
  [][(pc = "serial" /\ pc' = "loop")
     => UNCHANGED <<message, mesgLen, j, loops, eeprom>>]_vars

\* a pass without input has ended mid-scroll of a received "ABCD", which is
\* still the message, at offset 1
C10_Witness ==
  /\ pc = "loop"
  /\ nrep = 1
  /\ message = <<65, 66, 67, 68>>
  /\ ncyc = 11
  /\ j = 1
  /\ loops = 1

\* C11: on every replacement by a message of L characters the store is
\* written in the order length byte at address 0, characters at addresses
\* 1..L in increasing order, terminator 0 at address L + 1, each step
\* writing that one address only; no character is written before the length
\* byte and the terminator is the last write.  Afterwards byte 0 is L, bytes
\* 1..L are the message and byte L + 1 is 0.
C11_StoreWrittenInOrder ==
  /\ [][pc = "writeLen" =>
          /\ eeprom' = [eeprom EXCEPT ![0] = Len(message)]
          /\ i' = 0]_vars
  /\ [][pc = "writeData" =>
          /\ eeprom[0] = Len(message)
          /\ i < Len(message)
          /\ eeprom' = [eeprom EXCEPT ![i + 1] = message[i + 1]]
          /\ i' = i + 1]_vars
  /\ [][pc = "writeTerm" =>
          /\ i = Len(message)
          /\ eeprom' = [eeprom EXCEPT ![Len(message) + 1] = 0]
          /\ pc' = "loop"]_vars
  /\ []((pc = "loop" /\ nrep > 0) =>
          /\ eeprom[0] = Len(message)
          /\ \A k \in 1..Len(message) : eeprom[k] = message[k]
          /\ eeprom[Len(message) + 1] = 0)

\* C12: at the start of every refresh cycle the offset j is an index of the
\* message, 0 <= j < length of the message buffer, whatever cycles, offset
\* advances and replacements came before (a replacement by a shorter
\* message while j was past its end included).
C12_OffsetInsideMessage ==
  pc = "loop" => (j >= 0 /\ j < Len(message))

\* the one-character message "A" has replaced the default message, which
\* had scrolled to offset 1 (the glyph last translated is that of its second
\* character, shown in digit 3 at offset 1); the next cycle starts at
\* offset 0
C12_Witness ==
  /\ pc = "loop"
  /\ nrep = 1
  /\ ncyc = 0
  /\ message = <<65>>
  /\ t = translate(DefaultMessage[2])
  /\ j = 0

\* the one character of a one-character message: every digit shows it
OnlyChar == message[1]

\* C13: for every decimal digit d, translate('0' + d) is segTransNum[d]; for
\* every uppercase letter, translate is the segTransUpp entry at ch - 'A';
\* for every lowercase letter, the segTransLow entry at ch - 'a'.  The
\* index is inside the table (10, 26 and 26 entries) and the glyph is the
\* table's 16-bit value: '0' 0x08BF, '9' 0x210F, 'A' 0x0586, 'Z' 0x0889,
\* 'a' 0x1A08, 'z' 0x1808.
C13_LettersAndDigitsFromTables ==
  (DigitLoaded /\ Len(message) = 1) =>
    /\ Len(segTransNum) = 10 /\ Len(segTransUpp) = 26 /\ Len(segTransLow) = 26
    /\ t \in 0..65535
    /\ \A d \in 0..9 : OnlyChar = 48 + d =>
         (d + 1 \in DOMAIN segTransNum /\ t = segTransNum[d + 1])
    /\ \A n \in 0..25 : OnlyChar = 65 + n =>
         (n + 1 \in DOMAIN segTransUpp /\ t = segTransUpp[n + 1])
    /\ \A n \in 0..25 : OnlyChar = 97 + n =>
         (n + 1 \in DOMAIN segTransLow /\ t = segTransLow[n + 1])
    /\ OnlyChar = 48 => t = 2239
    /\ OnlyChar = 57 => t = 8463
    /\ OnlyChar = 65 => t = 1414
    /\ OnlyChar = 90 => t = 2185
    /\ OnlyChar = 97 => t = 6664
    /\ OnlyChar = 122 => t = 6152

\* the message "z" is being shown: digit 3 carries the last entry of the
\* lowercase table
C13_Witness ==
  /\ pc = "latch"
  /\ message = <<122>>
  /\ i = 3
  /\ t = 6152

\* the 32 punctuation characters of translate()'s switch: the printable
\* ASCII characters that are neither a letter, a digit nor the space
PunctuationChars == (33..47) \cup (58..64) \cup (91..96) \cup (123..126)

\* C14: translate yields a glyph for each of the 256 byte values, and for a
\* byte that is no digit, no letter and none of the 32 punctuation
\* characters (the space, the control characters and the bytes from 0x80
\* among them) the glyph is the blank one, 0.
C14_UnknownBytesAreBlank ==
  (DigitLoaded /\ Len(message) = 1) =>
    /\ OnlyChar \in Byte
    /\ t \in 0..65535
    /\ Cardinality(PunctuationChars) = 32
    /\ (OnlyChar \notin (48..57) \cup (65..90) \cup (97..122)
                        \cup PunctuationChars) => t = 0
    /\ (OnlyChar = 32 \/ OnlyChar < 32 \/ OnlyChar >= 128) => t = 0

\* the one-byte message 0xC8, a negative char, is being shown: the glyph is
\* blank and digit 2 is sent no segment
C14_Witness ==
  /\ pc = "latch"
  /\ charSigned
  /\ message = <<200>>
  /\ i = 2
  /\ t = 0
  /\ wire = <<128, 0>>

\* C15: for every character and every digit i in 0..3 the high byte sent is
\* (glyph >> 8) + (i << 6) with no carry and no 8-bit overflow: its top two
\* bits are i, its low six bits are bits 8..13 of the glyph, because every
\* glyph of translate is below 0x4000; the low byte sent is bits 0..7 of the
\* glyph.
C15_HighByteCarriesDigit ==
  (DigitLoaded /\ Len(message) = 1) =>
    /\ i \in 0..3
    /\ t = translate(OnlyChar)
    /\ t < 16384
    /\ high = (t \div 256) + (i * 64)
    /\ high \div 64 = i
    /\ high % 64 = (t \div 256) % 64
    /\ low = t % 256
    /\ pc = "shiftLow" => wire = <<high>>
    /\ pc = "latch" => wire = <<high, low>>

\* '&', the glyph with the most high bits (0x3B91), has been sent to digit
\* 3: the bytes are 0xFB and 0x91
C15_Witness ==
  /\ pc = "latch"
  /\ message = <<38>>
  /\ i = 3
  /\ t = 15249
  /\ wire = <<251, 145>>

\* C16: for each digit the strobe goes low before the first bit is shifted,
\* stays low while exactly two bytes are shifted, the high byte and then the
\* low byte, and goes high only after both have been sent; outside a
\* digit's transmission (from the end of setup(), during the settle delay,
\* during the frame count and the input pass) the strobe is high, and no
\* byte is shifted while it is high.
C16_StrobeFramesTwoBytes ==
  /\ [](strobe = LOW <=> DigitLoaded)
  /\ [](pc = "shiftHigh" => wire = <<>>)
  /\ [](pc = "shiftLow" => wire = <<high>>)
  /\ [](pc = "latch" => wire = <<high, low>>)
  /\ [][(strobe = HIGH /\ strobe' = LOW) => wire' = <<>>]_vars
  /\ [][Len(wire') > Len(wire) =>
          (strobe = LOW /\ strobe' = LOW /\ Len(wire') = Len(wire) + 1)]_vars
  /\ [][(strobe = LOW /\ strobe' = HIGH) =>
          (wire = <<high, low>> /\ wire' = wire)]_vars

\* both bytes of 'A' (0x0586) for digit 3 of "ABCD" have been shifted and
\* the strobe is still low
C16_Witness ==
  /\ pc = "latch"
  /\ strobe = LOW
  /\ message = <<65, 66, 67, 68>>
  /\ j = 0
  /\ i = 3
  /\ wire = <<197, 134>>

\* a digit is being sent, or is about to be
InDigits == pc \in {"digit", "shiftHigh", "shiftLow", "latch"}

\* C17: every refresh cycle sends the four digits in the order 0, 1, 2, 3,
\* each once (the cycle starts at digit 0, a digit's two bytes carry its
\* number, and the digit sent after digit i is i + 1 until digit 3); the
\* frame counter is incremented, the offset advanced and the input channel
\* checked only after all four have been sent; message, mesgLen and offset
\* do not change from the sending of digit 0 to that of digit 3.
C17_FourDigitsThenFrame ==
  /\ [](InDigits => i \in 0..3)
  /\ []((pc = "latch") => wire[1] \div (2 ^ DIGITSHIFT) = i)
  /\ [](pc \in {"frame", "serial"} => i = 4)
  /\ [][pc = "loop" => (pc' = "digit" /\ i' = 0)]_vars
  /\ [][(InDigits /\ pc # "latch") => (i' = i /\ InDigits')]_vars
  /\ [][pc = "latch" =>
          (i' = i + 1 /\ pc' = IF i = 3 THEN "frame" ELSE "digit")]_vars
  /\ [][InDigits => UNCHANGED <<message, mesgLen, j, loops>>]_vars
  /\ [][(loops' # loops \/ j' # j) => ~InDigits /\ pc # "loop"]_vars
  /\ [][nrep' # nrep => pc = "serial"]_vars

\* the four digits of a cycle of "ABCD" at offset 1 have been sent, the
\* last one digit 3 with 'B' (0x054F), and the frame counter comes next
C17_Witness ==
  /\ pc = "frame"
  /\ i = 4
  /\ message = <<65, 66, 67, 68>>
  /\ j = 1
  /\ wire = <<197, 79>>

\* C18: at the start of every refresh cycle mesgLen is the length of the
\* message buffer, after initialization from any store and after any input
\* bursts (bursts of more than 255 bytes included), so the modulus of the
\* index and of the offset's wrap is never zero and never another number
\* than the buffer's length.
C18_CachedLengthIsLength ==
  pc = "loop" => (mesgLen = Len(message) /\ mesgLen # 0)

====
